---- MODULE Spec2Model ----
(***************************************************************************)
(* JamaicaRoadNetwork (src/AI.py): a Python front end over a Prolog        *)
(* knowledge base.  The knowledge base is the text of default_data         *)
(* (lines 44-203), consulted at construction; every operation of the class *)
(* is a Prolog query whose solutions are all collected with list(...).     *)
(*                                                                         *)
(* The model keeps the clauses of road/5 and road_condition/3 in clause    *)
(* order and evaluates goals the way the engine does: clauses are tried in *)
(* order, depth first.  Both predicates end with a symmetric rule whose    *)
(* body calls the predicate itself with the first two arguments swapped    *)
(* (lines 69-70), so a road/5 goal first yields the matching facts, then   *)
(* enters the rule, yields the facts matching the swapped goal, enters the *)
(* rule again with the original goal, and so on.  A goal on road/5 thus    *)
(* never runs out of solutions to look for: a findall over it, or a        *)
(* list(...) of it, ends only if the engine gives up (stack or memory      *)
(* exhausted), which the methods' except clauses turn into None or False.  *)
(* Whether the engine gives up or reuses the frame of the recursive last   *)
(* call and runs on is left open: both are behaviours of the model.        *)
(***************************************************************************)
EXTENDS Integers, Sequences, FiniteSets, TLC

\* Engine resources granted to one query: frames the recursion through the
\* symmetric rule may push, and solutions a findall bag / result list holds.
StackLimit == 3
BagLimit == 4

\* Longest path handed to the path metrics helpers.
MaxPathLen == 3

Var == "_"

----------------------------------------------------------------------------
(* The knowledge base written by create_default_network.                   *)

Fact(a, b, d, t, s) == [kind |-> "fact", a |-> a, b |-> b, d |-> d, t |-> t, s |-> s]

SymmetricRoadRule == [kind |-> "rule", a |-> Var, b |-> Var, d |-> 0, t |-> Var, s |-> Var]

CondFact(a, b, c) == [kind |-> "fact", a |-> a, b |-> b, c |-> c]

SymmetricCondRule == [kind |-> "rule", a |-> Var, b |-> Var, c |-> Var]

DefaultRoads ==
    << Fact("morant_bay", "port_morant", 12, "paved", "open"),
       Fact("port_morant", "golden_grove", 8, "unpaved", "open"),
       Fact("golden_grove", "bath", 15, "paved", "open"),
       Fact("bath", "port_antonio", 25, "paved", "open"),
       Fact("morant_bay", "yallahs", 10, "unpaved", "open"),
       Fact("yallahs", "bath", 18, "paved", "open"),
       Fact("port_morant", "port_antonio", 35, "unpaved", "closed"),
       Fact("golden_grove", "manchioneal", 20, "paved", "open"),
       Fact("manchioneal", "port_antonio", 12, "paved", "open"),
       Fact("morant_bay", "eleven_mile", 6, "paved", "open"),
       Fact("eleven_mile", "yallahs", 5, "unpaved", "open"),
       Fact("bath", "stony_gut", 8, "unpaved", "open"),
       Fact("stony_gut", "golden_grove", 10, "paved", "open"),
       SymmetricRoadRule >>

DefaultConditions ==
    << CondFact("port_morant", "golden_grove", "deep_potholes"),
       CondFact("morant_bay", "yallahs", "broken_cisterns"),
       CondFact("bath", "stony_gut", "deep_potholes"),
       SymmetricCondRule >>

\* speed(paved, 60).  speed(unpaved, 30).
Speed(t) == IF t = "paved" THEN 60 ELSE 30

\* Neither predicate is declared dynamic anywhere in default_data, and both
\* are defined by the consulted file: they are static procedures, and
\* assertz/retract on a static procedure raise a permission error.
\* road/5 and road_condition/3 as they would be under a dynamic declaration
\* of both, of road_condition/3 only, and of road/5 only.
NeverStatic(pred) == FALSE

StaticRoadOnly(pred) == pred \in {"road"}

StaticCondOnly(pred) == pred \in {"road_condition"}

IsStatic(pred) == pred \in {"road", "road_condition"}

\* The predicates default_data has clauses for.  A goal on any other
\* predicate raises an existence error.
DefinedPredicates ==
    {"road", "road_condition", "speed", "travel_time", "road_exists", "location",
     "shortest_path", "dijkstra", "calculate_distance", "sort_paths", "path_cost",
     "bfs_path", "bfs_search", "dfs_path", "dfs_search", "fastest_path", "dijkstra_time",
     "paved_path", "paved_dijkstra", "safe_path", "safe_dijkstra"}

----------------------------------------------------------------------------
(* Inputs of the public methods.                                           *)

\* The locations the calls are made with: both ends of the closed road, both
\* ends of a road tagged deep_potholes, one end of the road tagged
\* broken_cisterns, a location that is the second argument of one of its
\* facts and the first of another, and "z", which no road mentions.
Locations == {"morant_bay", "port_morant", "golden_grove", "port_antonio", "stony_gut", "z"}

RecognisedCriteria == {"shortest", "fastest", "paved", "no_potholes", "no_cisterns", "bfs"}

\* "dfs" has a Prolog predicate but no branch in find_path.
Criteria == RecognisedCriteria \cup {"dfs"}

Surfaces == {"paved", "unpaved"}

Statuses == {"open", "closed"}

Tags == {"deep_potholes", "broken_cisterns"}

Distances == {-3, 0, 7}

\* Paths for the metrics helpers: over two joined locations and one no road
\* mentions.
PathLocations == {"morant_bay", "port_morant", "z"}

Paths == UNION { [1..n -> PathLocations] : n \in 1..MaxPathLen }

----------------------------------------------------------------------------
(* State.                                                                  *)

VARIABLES
    roadClauses,   \* clauses of road/5, in clause order
    condClauses,   \* clauses of road_condition/3, in clause order
    pc,            \* "idle", or "query" while a Prolog query is being solved
    call,          \* the method call in progress, or the last one made
    result,        \* what the last call returned
    goal,          \* the road/5 (or road_condition/3) goal the engine is solving
    orient,        \* 0: goal as called, 1: goal with its two locations swapped
    depth,         \* frames pushed by the recursion through the symmetric rule
    bag,           \* solutions collected so far by findall / list(...)
    results        \* solutions of the top query the Python generator has yielded

vars == << roadClauses, condClauses, pc, call, result, goal, orient, depth, bag, results >>

NoCall == [op |-> "none", src |-> Var, dst |-> Var, arg |-> Var, dist |-> 0, surface |-> Var,
           path |-> << >>]

NoGoal == [pred |-> "none", a |-> Var, b |-> Var, t |-> Var, s |-> Var, avoid |-> Var, excl |-> << >>]

Res(kind) == [kind |-> kind, path |-> << >>, distance |-> 0, time |-> 0]

Init ==
    /\ roadClauses = DefaultRoads
    /\ condClauses = DefaultConditions
    /\ pc = "idle"
    /\ call = NoCall
    /\ result = Res("nothing")
    /\ goal = NoGoal
    /\ orient = 0
    /\ depth = 0
    /\ bag = << >>
    /\ results = << >>

----------------------------------------------------------------------------
(* Resolution of a goal against a clause list.                             *)

Range(seq) == { seq[i] : i \in 1..Len(seq) }

\* Position of the first rule clause, 0 when the predicate has only facts.
RulePos(clauses) ==
    IF \E i \in 1..Len(clauses) : clauses[i].kind = "rule"
    THEN CHOOSE i \in 1..Len(clauses) :
            /\ clauses[i].kind = "rule"
            /\ \A j \in 1..(i - 1) : clauses[j].kind = "fact"
    ELSE 0

\* Clauses are tried in order; the facts after the rule are reached only once
\* the rule's body has no more solutions.
FactsBeforeRule(clauses) ==
    IF RulePos(clauses) = 0 THEN clauses ELSE SubSeq(clauses, 1, RulePos(clauses) - 1)

\* road(B, A, Dist, Type, Status) :- road(A, B, Dist, Type, Status).
\* The goal solved after the rule has been entered o times.
OrientedGoal(g, o) == IF o = 0 THEN g ELSE [g EXCEPT !.a = g.b, !.b = g.a]

UnifiesRoad(f, g) ==
    /\ g.a = Var \/ f.a = g.a
    /\ g.b = Var \/ f.b = g.b
    /\ g.t = Var \/ f.t = g.t
    /\ g.s = Var \/ f.s = g.s

\* The bindings a matching fact gives to the goal as first called.
Solution(f, o) ==
    IF o = 0
    THEN [a |-> f.a, b |-> f.b, d |-> f.d, t |-> f.t, s |-> f.s]
    ELSE [a |-> f.b, b |-> f.a, d |-> f.d, t |-> f.t, s |-> f.s]

\* The solutions of the goal found among the facts at one orientation, in
\* clause order.
LevelSolutions(clauses, g, o) ==
    LET sel == SelectSeq(FactsBeforeRule(clauses), LAMBDA f : UnifiesRoad(f, OrientedGoal(g, o)))
    IN  [i \in 1..Len(sel) |-> Solution(sel[i], o)]

\* road_condition(A, B, C) with all arguments bound has a proof iff a fact
\* matches it as called or swapped; otherwise the goal recurses for ever.
CondFactAt(clauses, a, b, c, o) ==
    \E i \in 1..Len(FactsBeforeRule(clauses)) :
        LET f == FactsBeforeRule(clauses)[i]
        IN  /\ f.c = c
            /\ IF o = 0 THEN f.a = a /\ f.b = b ELSE f.a = b /\ f.b = a

CondProvable(clauses, a, b, c) ==
    \/ CondFactAt(clauses, a, b, c, 0)
    \/ RulePos(clauses) > 0 /\ CondFactAt(clauses, a, b, c, 1)

\* The goal of the findall of each search predicate, for the queue [[Start]].
SearchGoal(start, criteria) ==
    [pred  |-> "road",
     a     |-> start,
     b     |-> Var,
     t     |-> IF criteria = "paved" THEN "paved" ELSE Var,
     s     |-> "open",
     avoid |-> IF criteria = "no_potholes" THEN "deep_potholes"
               ELSE IF criteria = "no_cisterns" THEN "broken_cisterns" ELSE Var,
     excl  |-> IF criteria = "fastest" THEN << >> ELSE << start >>]

\* road(Source, Dest, D, T, _) of update_road_status.
LookupGoal(source, dest) ==
    [pred |-> "road", a |-> source, b |-> dest, t |-> Var, s |-> Var, avoid |-> Var, excl |-> << >>]

CondGoal(g, next) ==
    [pred |-> "road_condition", a |-> g.a, b |-> next, t |-> Var, s |-> Var, avoid |-> g.avoid, excl |-> << >>]

\* What the conjunction inside findall does with the solutions of one level:
\* the solutions it adds to the bag and, under safe_dijkstra, the first
\* solution whose \+ road_condition(...) goal has no proof.
FirstUntagged(sols, g) ==
    IF \E i \in 1..Len(sols) : ~CondProvable(condClauses, g.a, sols[i].b, g.avoid)
    THEN CHOOSE i \in 1..Len(sols) :
            /\ ~CondProvable(condClauses, g.a, sols[i].b, g.avoid)
            /\ \A j \in 1..(i - 1) : CondProvable(condClauses, g.a, sols[j].b, g.avoid)
    ELSE 0

LevelOutcome(g, o) ==
    LET sols == LevelSolutions(roadClauses, g, o)
    IN  IF g.pred = "road_condition"
        THEN [added |-> << >>, stuck |-> 0, sols |-> << >>]
        ELSE IF g.avoid = Var
        THEN [added |-> SelectSeq(sols, LAMBDA x : x.b \notin Range(g.excl)), stuck |-> 0, sols |-> sols]
        ELSE [added |-> << >>, stuck |-> FirstUntagged(sols, g), sols |-> sols]

----------------------------------------------------------------------------
(* The methods of JamaicaRoadNetwork.                                      *)

EngineIdle ==
    /\ goal' = NoGoal
    /\ orient' = 0
    /\ depth' = 0
    /\ bag' = << >>
    /\ results' = << >>

\* add_road: assertz(road(...)), then True; any exception gives False.
AddRoad(source, dest, distance, surface, status) ==
    /\ pc = "idle"
    /\ call' = [op |-> "add_road", src |-> source, dst |-> dest, arg |-> status,
                dist |-> distance, surface |-> surface, path |-> << >>]
    /\ IF IsStatic("road")
       THEN /\ roadClauses' = roadClauses
            /\ result' = Res("False")
       ELSE /\ roadClauses' = Append(roadClauses, Fact(source, dest, distance, surface, status))
            /\ result' = Res("True")
    /\ EngineIdle
    /\ UNCHANGED << condClauses, pc >>

\* add_road_condition: assertz(road_condition(...)), then True.
AddRoadCondition(source, dest, condition) ==
    /\ pc = "idle"
    /\ call' = [op |-> "add_road_condition", src |-> source, dst |-> dest, arg |-> condition,
                dist |-> 0, surface |-> Var, path |-> << >>]
    /\ IF IsStatic("road_condition")
       THEN /\ condClauses' = condClauses
            /\ result' = Res("False")
       ELSE /\ condClauses' = Append(condClauses, CondFact(source, dest, condition))
            /\ result' = Res("True")
    /\ EngineIdle
    /\ UNCHANGED << roadClauses, pc >>

\* update_road_status: list(query("road(S, D, D, T, _)")) comes first.
UpdateRoadStatus(source, dest, newStatus) ==
    /\ pc = "idle"
    /\ call' = [op |-> "update_road_status", src |-> source, dst |-> dest, arg |-> newStatus,
                dist |-> 0, surface |-> Var, path |-> << >>]
    /\ pc' = "query"
    /\ result' = Res("pending")
    /\ goal' = LookupGoal(source, dest)
    /\ orient' = 0
    /\ depth' = 0
    /\ bag' = << >>
    /\ results' = << >>
    /\ UNCHANGED << roadClauses, condClauses >>

\* find_path: an unrecognised criterion matches no branch and returns None;
\* otherwise the search predicate is queried.  Its first clause answers at
\* once when Start = End; asked for the next solution, the engine goes on to
\* the second clause and its findall.
FindPath(start, end, criteria) ==
    /\ pc = "idle"
    /\ call' = [op |-> "find_path", src |-> start, dst |-> end, arg |-> criteria,
                dist |-> 0, surface |-> Var, path |-> << >>]
    /\ IF criteria \notin RecognisedCriteria
       THEN /\ result' = Res("None")
            /\ EngineIdle
            /\ UNCHANGED pc
       ELSE /\ pc' = "query"
            /\ result' = Res("pending")
            /\ goal' = SearchGoal(start, criteria)
            /\ orient' = 0
            /\ depth' = 0
            /\ bag' = << >>
            /\ results' = IF start = end THEN << [path |-> << start >>, cost |-> 0] >> ELSE << >>
    /\ UNCHANGED << roadClauses, condClauses >>

\* RoadNetworkGUI.add_road: a distance that is not positive is reported and
\* the network is not called; otherwise the outcome is that of add_road.
GuiAddRoad(source, dest, distance, surface, status) ==
    /\ pc = "idle"
    /\ call' = [op |-> "gui_add_road", src |-> source, dst |-> dest, arg |-> status,
                dist |-> distance, surface |-> surface, path |-> << >>]
    /\ IF distance <= 0
       THEN /\ roadClauses' = roadClauses
            /\ result' = Res("InvalidInput")
       ELSE IF IsStatic("road")
       THEN /\ roadClauses' = roadClauses
            /\ result' = Res("False")
       ELSE /\ roadClauses' = Append(roadClauses, Fact(source, dest, distance, surface, status))
            /\ result' = Res("True")
    /\ EngineIdle
    /\ UNCHANGED << condClauses, pc >>

\* _calculate_distance: one query connected(P[i], P[i+1], D, _, _) per pair of
\* consecutive locations.  No clause defines connected/5, so the first query
\* raises, and the helper has no except clause.
CalculateDistance(path) ==
    /\ pc = "idle"
    /\ call' = [op |-> "calculate_distance", src |-> Var, dst |-> Var, arg |-> Var,
                dist |-> 0, surface |-> Var, path |-> path]
    /\ result' = IF Len(path) < 2 THEN Res("Value")
                 ELSE IF "connected" \notin DefinedPredicates THEN Res("Raised")
                 ELSE Res("Value")
    /\ EngineIdle
    /\ UNCHANGED << roadClauses, condClauses, pc >>

\* travel_time(Source, Dest, Time) :- road(Source, Dest, Distance, Type, open), ...
TravelTimeGoal(source, dest) ==
    [pred |-> "road", a |-> source, b |-> dest, t |-> Var, s |-> "open", avoid |-> Var, excl |-> << >>]

\* _calculate_time: list(query("travel_time(P[i], P[i+1], T)")) comes first
\* for each pair; a path of one location has no pair and the total is 0.
CalculateTime(path) ==
    /\ pc = "idle"
    /\ call' = [op |-> "calculate_time", src |-> Var, dst |-> Var, arg |-> Var,
                dist |-> 0, surface |-> Var, path |-> path]
    /\ IF Len(path) < 2
       THEN /\ result' = Res("Value")
            /\ EngineIdle
            /\ UNCHANGED pc
       ELSE /\ pc' = "query"
            /\ result' = Res("pending")
            /\ goal' = TravelTimeGoal(path[1], path[2])
            /\ orient' = 0
            /\ depth' = 0
            /\ bag' = << >>
            /\ results' = << >>
    /\ UNCHANGED << roadClauses, condClauses >>

----------------------------------------------------------------------------
(* The engine at work on the current goal.                                 *)

Clauses(g) == IF g.pred = "road_condition" THEN condClauses ELSE roadClauses

\* The facts of this orientation have been tried and their solutions stored;
\* the symmetric rule is the next clause and its body is the swapped goal.
EnterRule ==
    /\ pc = "query"
    /\ RulePos(Clauses(goal)) > 0
    /\ LevelOutcome(goal, orient).stuck = 0
    /\ goal.pred = "road_condition" => ~CondFactAt(condClauses, goal.a, goal.b, goal.avoid, orient)
    /\ Len(bag) + Len(LevelOutcome(goal, orient).added) <= BagLimit
    /\ bag' = bag \o LevelOutcome(goal, orient).added
    /\ orient' = 1 - orient
    /\ UNCHANGED << roadClauses, condClauses, pc, call, result, goal, results >>

\* The body of the rule is its last call: the frame is reused when no
\* choice point is left, pushed otherwise.
ResolveReuse ==
    /\ EnterRule
    /\ depth' = depth

ResolvePush ==
    /\ EnterRule
    /\ depth < StackLimit
    /\ depth' = depth + 1

\* safe_dijkstra: a road solution whose \+ road_condition(Node, Next, Avoid)
\* has no proof; the engine starts on that goal.
CallNegation ==
    /\ pc = "query"
    /\ LevelOutcome(goal, orient).stuck > 0
    /\ goal' = CondGoal(goal, LevelOutcome(goal, orient).sols[LevelOutcome(goal, orient).stuck].b)
    /\ orient' = 0
    /\ UNCHANGED << roadClauses, condClauses, pc, call, result, depth, bag, results >>

\* The stack or the memory for solutions is used up: the query raises, and
\* the except clause of the method returns None (find_path) or False
\* (update_road_status); _calculate_time has none and the error leaves it.
ResourceError ==
    /\ pc = "query"
    /\ \/ depth = StackLimit
       \/ Len(bag) + Len(LevelOutcome(goal, orient).added) > BagLimit
    /\ pc' = "idle"
    /\ result' = IF call.op = "find_path" THEN Res("None")
                 ELSE IF call.op = "calculate_time" THEN Res("Raised")
                 ELSE Res("False")
    /\ EngineIdle
    /\ UNCHANGED << roadClauses, condClauses, call >>

EngineStep == ResolveReuse \/ ResolvePush \/ CallNegation \/ ResourceError

Next ==
    \/ \E s \in Locations, d \in Locations, x \in Distances, t \in Surfaces, st \in Statuses :
          AddRoad(s, d, x, t, st)
    \/ \E s \in Locations, d \in Locations, c \in Tags : AddRoadCondition(s, d, c)
    \/ \E s \in Locations, d \in Locations, st \in Statuses : UpdateRoadStatus(s, d, st)
    \/ \E s \in Locations, e \in Locations, c \in Criteria : FindPath(s, e, c)
    \/ \E s \in Locations, d \in Locations, x \in Distances, t \in Surfaces, st \in Statuses :
          GuiAddRoad(s, d, x, t, st)
    \/ \E p \in Paths : CalculateDistance(p)
    \/ \E p \in Paths : CalculateTime(p)
    \/ ResolveReuse
    \/ ResolvePush
    \/ CallNegation
    \/ ResourceError

Spec == Init /\ [][Next]_vars

\* A query in progress keeps running: the engine is never descheduled.
FairSpec == Spec /\ WF_vars(EngineStep)

----------------------------------------------------------------------------
(* The road network the clauses describe, for stating the properties.      *)

RoadFacts == { roadClauses[i] : i \in { j \in 1..Len(roadClauses) : roadClauses[j].kind = "fact" } }

CondFacts == { condClauses[i] : i \in { j \in 1..Len(condClauses) : condClauses[j].kind = "fact" } }

Nodes == Locations \cup { f.a : f \in RoadFacts } \cup { f.b : f \in RoadFacts }

Joins(f, x, y) == (f.a = x /\ f.b = y) \/ (f.a = y /\ f.b = x)

Tagged(f, tag) == \E c \in CondFacts : Joins(c, f.a, f.b) /\ c.c = tag

\* The roads a search under the criterion may use.
Eligible(f, criteria) ==
    /\ f.s = "open"
    /\ criteria = "paved" => f.t = "paved"
    /\ criteria = "no_potholes" => ~Tagged(f, "deep_potholes")
    /\ criteria = "no_cisterns" => ~Tagged(f, "broken_cisterns")

\* Distance for the distance criteria, minutes (Distance / Speed * 60) for
\* fastest, one per road for bfs.
EdgeCost(f, criteria) ==
    IF criteria = "fastest" THEN (f.d * 60) \div Speed(f.t)
    ELSE IF criteria = "bfs" THEN 1
    ELSE f.d

Min(S) == CHOOSE x \in S : \A y \in S : x <= y

OtherEnd(f, n) == IF f.a = n THEN f.b ELSE f.a

\* One round of relaxation of the least costs from the start; -1: no path yet.
Relax(D, criteria) ==
    [n \in Nodes |->
        LET cands == (IF D[n] >= 0 THEN {D[n]} ELSE {}) \cup
                     { D[OtherEnd(f, n)] + EdgeCost(f, criteria) :
                         f \in { g \in RoadFacts : /\ Eligible(g, criteria)
                                                   /\ n \in {g.a, g.b}
                                                   /\ g.a # g.b
                                                   /\ D[OtherEnd(g, n)] >= 0 } }
        IN  IF cands = {} THEN -1 ELSE Min(cands)]

RECURSIVE RelaxTimes(_, _, _)
RelaxTimes(D, criteria, k) ==
    LET E == Relax(D, criteria)
    IN  IF k = 0 \/ E = D THEN D ELSE RelaxTimes(E, criteria, k - 1)

\* Least cost of an eligible path from start to each node, -1 where none.
LeastCost(start, criteria) ==
    RelaxTimes([n \in Nodes |-> IF n = start THEN 0 ELSE -1], criteria, Cardinality(Nodes))

\* The locations an eligible path joins to those of S.
RECURSIVE ReachFrom(_, _)
ReachFrom(S, criteria) ==
    LET T == S \cup { f.b : f \in { g \in RoadFacts : Eligible(g, criteria) /\ g.a \in S } }
                \cup { f.a : f \in { g \in RoadFacts : Eligible(g, criteria) /\ g.b \in S } }
    IN  IF T = S THEN S ELSE ReachFrom(T, criteria)

EligiblePathExists(start, end, criteria) == end \in ReachFrom({start}, criteria)

IsSimple(path) == \A i, j \in 1..Len(path) : path[i] = path[j] => i = j

\* A simple path from start to end over eligible roads.
Admissible(path, start, end, criteria) ==
    /\ Len(path) >= 1
    /\ path[1] = start
    /\ path[Len(path)] = end
    /\ IsSimple(path)
    /\ \A i \in 1..(Len(path) - 1) :
          \E f \in RoadFacts : Joins(f, path[i], path[i + 1]) /\ Eligible(f, criteria)

RECURSIVE PathCost(_, _)
PathCost(path, criteria) ==
    IF Len(path) < 2 THEN 0
    ELSE Min({ EdgeCost(f, criteria) :
                 f \in { g \in RoadFacts : Joins(g, path[1], path[2]) /\ Eligible(g, criteria) } })
         + PathCost(Tail(path), criteria)

\* find_path has returned from a search between two different locations that
\* an eligible path joins.
ReturnedWherePathExists ==
    /\ pc = "idle"
    /\ call.op = "find_path"
    /\ call.arg \in RecognisedCriteria
    /\ call.src # call.dst
    /\ EligiblePathExists(call.src, call.dst, call.arg)

----------------------------------------------------------------------------
(* Properties.                                                             *)

\* The symmetric rule stays the last clause of both predicates, so no goal
\* on them ever runs out of clauses to try.
RuleIsLast ==
    /\ RulePos(roadClauses) = Len(roadClauses)
    /\ RulePos(condClauses) = Len(condClauses)

\* No call of find_path ever returns a path: every recognised criterion starts
\* with a findall over road/5, which never completes.
NoPathEverReturned == result.kind # "Path"

\* C1: completeness of findPath.  Whenever find_path returns from a query with
\* start # end between which an eligible simple path exists, it returns a path
\* and not None.
C1_Completeness == ReturnedWherePathExists => result.kind = "Path"

\* C2: optimality of uniform-cost search.  Under a cost-ordered criterion,
\* find_path returns an admissible path whose cost under the criterion is the
\* least cost of any admissible path between the same two locations.
C2_Optimality ==
    (ReturnedWherePathExists /\ call.arg \in RecognisedCriteria \ {"bfs"}) =>
        /\ result.kind = "Path"
        /\ Admissible(result.path, call.src, call.dst, call.arg)
        /\ PathCost(result.path, call.arg) = LeastCost(call.src, call.arg)[call.dst]

\* C3: hop-minimality of breadth-first search.  Under bfs, find_path returns
\* an admissible path with the least number of roads of any admissible path.
C3_HopMinimality ==
    (ReturnedWherePathExists /\ call.arg = "bfs") =>
        /\ result.kind = "Path"
        /\ Admissible(result.path, call.src, call.dst, "bfs")
        /\ Len(result.path) - 1 = LeastCost(call.src, "bfs")[call.dst]

\* C6: termination of every search.  Every find_path query in progress
\* eventually ends, whatever the criterion, the network and the end points.
C6_Termination == (pc = "query" /\ call.op = "find_path") ~> (pc = "idle")

\* find_path was called with an end point that is no location, or with no
\* eligible path between the end points.
FailureCase ==
    /\ call.op = "find_path"
    /\ call.arg \in RecognisedCriteria
    /\ call.src # call.dst
    /\ ~EligiblePathExists(call.src, call.dst, call.arg)

\* C8: findPath always yields a reportable outcome.  A find_path query with an
\* unknown end point or without eligible path eventually returns None.
C8_ReportableOutcome ==
    (pc = "query" /\ FailureCase) ~> (pc = "idle" /\ result.kind = "None")

RoadsBetween(clauses, x, y) ==
    { i \in 1..Len(clauses) : clauses[i].kind = "fact" /\ Joins(clauses[i], x, y) }

\* C9: idempotent re-add.  When add_road is called for a pair of locations
\* right after an add_road for the same pair with other attributes, the store
\* afterwards holds exactly one road for the pair, with the second call's
\* distance, surface and status.
C9_IdempotentReAdd ==
    [][(/\ pc = "idle" /\ pc' = "idle"
        /\ call.op = "add_road" /\ call'.op = "add_road"
        /\ call.dist > 0 /\ call'.dist > 0
        /\ {call.src, call.dst} = {call'.src, call'.dst}
        /\ << call.dist, call.surface, call.arg >> # << call'.dist, call'.surface, call'.arg >>)
       => (/\ Cardinality(RoadsBetween(roadClauses', call'.src, call'.dst)) = 1
           /\ \A i \in RoadsBetween(roadClauses', call'.src, call'.dst) :
                 /\ roadClauses'[i].d = call'.dist
                 /\ roadClauses'[i].t = call'.surface
                 /\ roadClauses'[i].s = call'.arg)]_vars

\* C10: single undirected record.  After any sequence of add_road,
\* update_road_status and add_road_condition calls, no two road facts join
\* the same unordered pair of locations.
C10_SingleRecord ==
    \A i, j \in 1..Len(roadClauses) :
        (/\ roadClauses[i].kind = "fact"
         /\ roadClauses[j].kind = "fact"
         /\ Joins(roadClauses[i], roadClauses[j].a, roadClauses[j].b)) => i = j

\* An add_road for a pair that already has a road, entered the other way
\* round and with another status, has returned.
C10_Witness ==
    /\ pc = "idle"
    /\ call.op = "add_road"
    /\ call.dist > 0
    /\ \E i \in 1..Len(roadClauses) :
          /\ roadClauses[i].kind = "fact"
          /\ roadClauses[i].a = call.dst
          /\ roadClauses[i].b = call.src
          /\ roadClauses[i].s # call.arg

\* C11: setStatus on a pair without road.  An update_road_status call for two
\* locations that no road joins, in either direction, eventually returns
\* False, and no step of such a call changes the roads or the hazard tags.
C11_RoadNotFound ==
    /\ (/\ pc = "query"
        /\ call.op = "update_road_status"
        /\ RoadsBetween(roadClauses, call.src, call.dst) = {})
          ~> (pc = "idle" /\ result.kind = "False")
    /\ [][(call'.op = "update_road_status" /\ RoadsBetween(roadClauses, call'.src, call'.dst) = {})
             => (roadClauses' = roadClauses /\ condClauses' = condClauses)]_vars

\* C12: frame of a successful setStatus.  An update_road_status call for two
\* locations a road joins returns True, and leaves that road with the new
\* status and its former distance and surface, the number of roads, every
\* other road and every hazard tag unchanged.
C12_StatusOnly ==
    [][(/\ pc = "query" /\ pc' = "idle"
        /\ call.op = "update_road_status"
        /\ RoadsBetween(roadClauses, call.src, call.dst) # {})
       => (/\ result'.kind = "True"
           /\ Len(roadClauses') = Len(roadClauses)
           /\ condClauses' = condClauses
           /\ { f \in RoadFacts' : ~Joins(f, call.src, call.dst) }
                 = { f \in RoadFacts : ~Joins(f, call.src, call.dst) }
           /\ \E f \in RoadFacts' : Joins(f, call.src, call.dst)
           /\ \A f \in RoadFacts' :
                 Joins(f, call.src, call.dst) =>
                    /\ f.s = call.arg
                    /\ \E g \in RoadFacts :
                          Joins(g, call.src, call.dst) /\ g.d = f.d /\ g.t = f.t)]_vars

\* C13: invalid distance.  Every stored road has a distance above 0, and an
\* add_road with a distance of 0 or less, made directly or from the form,
\* fails and leaves the roads and the hazard tags as they were.
C13_InvalidDistance ==
    /\ [](\A f \in RoadFacts : f.d > 0)
    /\ [][(/\ pc = "idle" /\ pc' = "idle"
           /\ call'.op \in {"add_road", "gui_add_road"}
           /\ call'.dist <= 0)
          => (/\ result'.kind \in {"False", "InvalidInput"}
              /\ roadClauses' = roadClauses
              /\ condClauses' = condClauses)]_vars

\* add_road was called with a distance of 0 and has failed.
C13_Witness ==
    /\ pc = "idle"
    /\ call.op = "add_road"
    /\ call.dist = 0
    /\ result.kind = "False"

\* C14: hazard on a pair without road.  Every hazard tag is on a pair of
\* locations that a road joins, and an add_road_condition for a pair that no
\* road joins fails and adds no tag.
C14_HazardNeedsRoad ==
    /\ [](\A c \in CondFacts : \E f \in RoadFacts : Joins(f, c.a, c.b))
    /\ [][(/\ pc = "idle" /\ pc' = "idle"
           /\ call'.op = "add_road_condition"
           /\ RoadsBetween(roadClauses, call'.src, call'.dst) = {})
          => (result'.kind = "False" /\ condClauses' = condClauses)]_vars

\* add_road_condition was called for a pair no road joins and has failed.
C14_Witness ==
    /\ pc = "idle"
    /\ call.op = "add_road_condition"
    /\ RoadsBetween(roadClauses, call.src, call.dst) = {}
    /\ result.kind = "False"

\* C15: symmetry.  A find_path from B to A, where an eligible road is stored
\* as (A, B, ...), returns a path, as the find_path from A to B does.
C15_Symmetry ==
    (/\ pc = "idle"
     /\ call.op = "find_path"
     /\ call.arg \in RecognisedCriteria
     /\ call.src # call.dst
     /\ \E f \in RoadFacts : f.a = call.dst /\ f.b = call.src /\ Eligible(f, call.arg))
        => result.kind = "Path"

\* The stored roads joining two locations.
Stored(x, y) == { f \in RoadFacts : Joins(f, x, y) }

AllJoined(path) == \A i \in 1..(Len(path) - 1) : Stored(path[i], path[i + 1]) # {}

\* Sum over the consecutive pairs of a path of the stored distance, and of
\* distance / speed * 60; a pair without road counts 0.
RECURSIVE SumDistance(_)
SumDistance(path) ==
    IF Len(path) < 2 THEN 0
    ELSE (IF Stored(path[1], path[2]) = {} THEN 0
          ELSE (CHOOSE f \in Stored(path[1], path[2]) : TRUE).d)
         + SumDistance(Tail(path))

RECURSIVE SumTime(_)
SumTime(path) ==
    IF Len(path) < 2 THEN 0
    ELSE (IF Stored(path[1], path[2]) = {} THEN 0
          ELSE LET f == CHOOSE g \in Stored(path[1], path[2]) : TRUE
               IN  (f.d * 60) \div Speed(f.t))
         + SumTime(Tail(path))

\* C16: reported metrics match the path.  The distance and the time reported
\* with a path by find_path, and those the helpers compute for a path whose
\* consecutive locations are all joined by roads, are the sums of the stored
\* distances and of distance / speed * 60 over its roads.
C16_MetricsMatch ==
    /\ (pc = "idle" /\ call.op = "find_path" /\ result.kind = "Path") =>
          /\ result.distance = SumDistance(result.path)
          /\ result.time = SumTime(result.path)
    /\ (pc = "idle" /\ call.op = "calculate_distance" /\ AllJoined(call.path)) =>
          /\ result.kind = "Value"
          /\ result.distance = SumDistance(call.path)
    /\ (pc = "idle" /\ call.op = "calculate_time" /\ AllJoined(call.path)) =>
          /\ result.kind = "Value"
          /\ result.time = SumTime(call.path)

\* C17: defensive metrics.  For a path with a pair of consecutive locations
\* that no road joins, the helpers return the totals of the other pairs and
\* do not raise.
C17_DefensiveMetrics ==
    (/\ pc = "idle"
     /\ call.op \in {"calculate_distance", "calculate_time"}
     /\ ~AllJoined(call.path))
        => /\ result.kind = "Value"
           /\ call.op = "calculate_distance" => result.distance = SumDistance(call.path)
           /\ call.op = "calculate_time" => result.time = SumTime(call.path)

\* No step of an update_road_status call, from the call to its return,
\* changes the clauses of road/5: the call ends in its first query, before
\* the retract and the assertz of lines 268-272.
UpdateLeavesRoads ==
    [][call'.op = "update_road_status" => roadClauses' = roadClauses]_vars

\* update_road_status has returned False for two locations a road joins.
UpdateFailedOnRoad ==
    /\ pc = "idle"
    /\ call.op = "update_road_status"
    /\ result.kind = "False"
    /\ RoadsBetween(roadClauses, call.src, call.dst) # {}

====
